---- MODULE Spec2Model ----
(***************************************************************************)
(* ORPHE INSOLE BLE client (src/orphe_insole.py): the session object       *)
(* Orphe, its two notification handlers and the decoders they call.        *)
(*                                                                         *)
(* A payload is a sequence of bytes; Python's data[k] is d[k+1] here.      *)
(* A subscriber invocation is logged as a record in calls, in call order.  *)
(***************************************************************************)
EXTENDS Integers, Sequences, FiniteSets, TLC

\* ------------------------------------------------------------------ bounds
\* step_count values offered to the step-analysis handler: k * StepUnit,
\* k in 0..MaxStep (StepUnit > 255 so that both payload bytes matter).
MaxStep == 2
StepUnit == 258
\* serial numbers offered to the sensor handler: 0..MaxSerialLow and 65535
MaxSerialLow == 2
\* successful connects of one session object (each starts a monitor task)
MaxMonitors == 2
\* sensor-stream packets counted by the observer
MaxReceived == 2

VARIABLES
    client,             \* Orphe.client: "None", "connected" or "disconnected"
    device_information, \* Orphe.device_information: <<>> (no attribute) or <<di>>
    step_count,         \* Orphe.step_count: [gait, stride, pronation, quat]
    serial_number_prev, \* Orphe.serial_number_prev
    callbacks,          \* names of the callback attributes set to a callable
    pre,                \* session state as the operation that ran last found it
    last,               \* the operation that ran last, with its payload
    calls,              \* subscriber invocations made by that operation, in order
    transport,          \* its reads and writes of the device-information
                        \* characteristic and its settle waits, in order
    monitors,           \* the monitor_connection tasks, in creation order
    notifying,          \* characteristics the current client notifies on
    setter,             \* the range setter that awaits the transport, if any
    watch,              \* observer: one emitted (category, step_count) followed up
    received            \* observer: sensor-stream packets handled so far, up to 2

session == <<client, device_information, step_count, serial_number_prev>>
\* what runs beside the caller: the monitor tasks, the subscriptions of
\* the transport's client, a setter suspended in an await
background == <<monitors, notifying, setter>>
observed == <<watch, received>>
vars == <<client, device_information, step_count, serial_number_prev,
          callbacks, pre, last, calls, transport, monitors, notifying, setter,
          watch, received>>

\* ------------------------------------------------------- Python primitives
Min(a, b) == IF a < b THEN a ELSE b

\* data[a:b]: a slice never raises, it is cut at the end of the payload.
Slice(d, a, b) == SubSeq(d, a + 1, Min(b, Len(d)))

\* int.from_bytes(s, byteorder='big', signed=False)
RECURSIVE FromBytesBig(_)
FromBytesBig(s) ==
    IF s = <<>> THEN 0
    ELSE 256 * FromBytesBig(SubSeq(s, 1, Len(s) - 1)) + s[Len(s)]

\* --------------------------------------------------------- step analysis
DedupCategories == {"gait", "stride", "pronation"}

CallbackOf(cat) ==
    CASE cat = "gait" -> "got_gait_callback"
      [] cat = "stride" -> "got_stride_callback"
      [] cat = "pronation" -> "got_pronation_callback"
      [] cat = "quat" -> "got_quat_distance_callback"

CategoryOfReserved(sub) ==
    CASE sub \in {0, 3} -> "gait"
      [] sub = 1 -> "stride"
      [] sub = 2 -> "pronation"
      [] sub = 4 -> "quat"
      [] OTHER -> "none"
\* the category a sub-type byte (data[1]) selects; 3, 5, 6 select none
CategoryOf(sub) ==
    CASE sub = 0 -> "gait"
      [] sub = 1 -> "stride"
      [] sub = 2 -> "pronation"
      [] sub = 4 -> "quat"
      [] OTHER -> "none"

\* StepCount.__init__
StepCountInit == [gait |-> 0, stride |-> 0, pronation |-> 0, quat |-> 0]

\* self.step_count = int.from_bytes(data[2:4], byteorder='big', signed=False)
StepCountOf(data) == FromBytesBig(Slice(data, 2, 4))

\* struct.unpack on the slices of a payload shorter than 20 bytes raises
StepPayloadLen == 20
Decodable(data) == Len(data) >= StepPayloadLen

AdvancesOrRepeats(sc, recorded) == sc >= recorded
\* if self.step_count > owner.step_count.<category>:
Advances(sc, recorded) == sc > recorded

KeepUnlessEmitted(sc, recorded) == IF sc > recorded THEN sc ELSE recorded
\* owner.step_count.<category> = self.step_count   (outside the if)
Recorded(sc, recorded) == sc

QuatDeduplicated(sc, recorded) == sc > recorded
\* # if self.step_count > owner.step_count.quat:   (commented out)
QuatAdvances(sc, recorded) == TRUE

BranchAll(sc_rec, cbs, data, cat, emit) ==
    [step_count |-> [c \in DOMAIN sc_rec |-> StepCountOf(data)],
     calls |-> <<>>, raised |-> FALSE]
\* One branch of StepAnalysisData.__init__: what it leaves in
\* owner.step_count, the subscriber calls it makes, and whether it raised.
Branch(sc_rec, cbs, data, cat, emit) ==
    LET sc == StepCountOf(data)
    IN  IF emit /\ ~Decodable(data)
        THEN [step_count |-> sc_rec, calls |-> <<>>, raised |-> TRUE]
        ELSE [step_count |-> [sc_rec EXCEPT ![cat] = Recorded(sc, sc_rec[cat])],
              calls |-> IF emit /\ CallbackOf(cat) \in cbs
                        THEN <<[cb |-> CallbackOf(cat), step_count |-> sc]>>
                        ELSE <<>>,
              raised |-> FALSE]

StepAnalysisData(sc_rec, cbs, data) ==
    LET cat == CategoryOf(data[2])
        sc == StepCountOf(data)
    IN  CASE cat \in DedupCategories ->
               Branch(sc_rec, cbs, data, cat, Advances(sc, sc_rec[cat]))
          [] cat = "quat" ->
               Branch(sc_rec, cbs, data, cat, QuatAdvances(sc, sc_rec[cat]))
          [] OTHER -> [step_count |-> sc_rec, calls |-> <<>>, raised |-> FALSE]

\* a & b on bytes
RECURSIVE BitAnd(_, _)
BitAnd(a, b) ==
    IF a = 0 \/ b = 0 THEN 0
    ELSE (a % 2) * (b % 2) + 2 * BitAnd(a \div 2, b \div 2)
\* a >> n
ShiftRight(a, n) == a \div (2 ^ n)

\* GaitData.__init__, the integer fields. >> binds tighter than &, so
\* data[4] & 0b11000000 >> 6 is data[4] & (0b11000000 >> 6)
GaitData(data) ==
    [step_count |-> StepCountOf(data),
     gait_type |-> BitAnd(data[5], ShiftRight(192, 6)),
     direction |-> ShiftRight(BitAnd(data[5], 56), 3)]

\* QuatDistanceData.__init__, the integer fields
QuatDistanceData(data) ==
    [step_count |-> StepCountOf(data),
     phase |-> BitAnd(data[5], 1),
     period |-> ShiftRight(BitAnd(data[5], 30), 1),
     event |-> ShiftRight(BitAnd(data[5], 224), 5)]

\* ---------------------------------------------------------- sensor values
\* int.from_bytes(s, byteorder='big', signed=True)
FromBytesBigSigned(s) ==
    LET u == FromBytesBig(s)
    IN  IF Len(s) > 0 /\ u >= 2 ^ (8 * Len(s) - 1) THEN u - 2 ^ (8 * Len(s)) ELSE u

\* datetime.replace(hour, minute, second, microsecond) accepts these only
ValidTime(hours, minutes, seconds, ms_high, ms_low) ==
    hours <= 23 /\ minutes <= 59 /\ seconds <= 59 /\ 256 * ms_high + ms_low <= 999

\* int(now.replace(...).timestamp() * 1000): milliseconds since today's
\* midnight, plus the epoch milliseconds of that midnight
TodayMs == 0
to_timestamp(hours, minutes, seconds, ms_high, ms_low) ==
    TodayMs + ((hours * 60 + minutes) * 60 + seconds) * 1000
            + (256 * ms_high + ms_low)

\* x, y, z: three signed 16-bit fields from offset a; the value is the
\* numerator over 32768
Vec3(d, a) ==
    <<FromBytesBigSigned(Slice(d, a, a + 2)),
      FromBytesBigSigned(Slice(d, a + 2, a + 4)),
      FromBytesBigSigned(Slice(d, a + 4, a + 6))>>

\* w, x, y, z
Vec4(d, a) ==
    <<FromBytesBigSigned(Slice(d, a, a + 2)),
      FromBytesBigSigned(Slice(d, a + 2, a + 4)),
      FromBytesBigSigned(Slice(d, a + 4, a + 6)),
      FromBytesBigSigned(Slice(d, a + 6, a + 8))>>

\* for j in range(6): values.append(int.from_bytes(data[a+2*j:a+2+2*j]))
Pressure(d, a) ==
    [j \in 1..6 |-> FromBytesBig(Slice(d, a + 2 * (j - 1), a + 2 * j))]

\* amp_acc = [2, 4, 8, 16][sensor_range.acc]
AmpAcc(range) == <<2, 4, 8, 16>>[range.acc + 1]
AmpGyroByAcc(range) == <<250, 500, 1000, 2000>>[range.acc + 1]
\* amp_gyro = [250, 500, 1000, 2000][sensor_range.gyro]
AmpGyro(range) == <<250, 500, 1000, 2000>>[range.gyro + 1]
\* the list index raises outside 0..3
RangeValid(range) == range.acc \in 0..3 /\ range.gyro \in 0..3

Scaled(v, amp) == [k \in DOMAIN v |-> v[k] * amp]

PacketNumberIsSlot(first, i) == i
\* self.acc.packet_number = 3-i   (1-i for tag 56)
PacketNumber(first, i) == first - i

\* if hasattr(owner, cb) and owner.cb: owner.cb(obj), where obj carries the
\* decoded value v; slot is the loop variable i
Call(cbs, cb, v, serial, first, i, ts) ==
    IF cb \in cbs
    THEN <<[cb |-> cb, v |-> v, serial_number |-> serial,
            packet_number |-> PacketNumber(first, i), timestamp |-> ts,
            slot |-> i]>>
    ELSE <<>>

\* tag 50, one iteration: the callback calls in their order
Slot50(cbs, d, range, serial, ts, i) ==
    LET step == 21 * i
        acc == Vec3(d, 22 + step)
        gyro == Vec3(d, 16 + step)
    IN  Call(cbs, "got_acc_callback", acc, serial, 3, i, ts)
        \o Call(cbs, "got_converted_acc_callback", Scaled(acc, AmpAcc(range)),
                serial, 3, i, ts)
        \o Call(cbs, "got_gyro_callback", gyro, serial, 3, i, ts)
        \o Call(cbs, "got_converted_gyro_callback", Scaled(gyro, AmpGyro(range)),
                serial, 3, i, ts)
        \o Call(cbs, "got_quat_callback", Vec4(d, 8 + step), serial, 3, i, ts)

Slot55WithQuat(cbs, d, range, serial, ts, i) ==
    LET step == 24 * i
        acc == Vec3(d, 14 + step)
        gyro == Vec3(d, 8 + step)
    IN  Call(cbs, "got_acc_callback", acc, serial, 3, i, ts)
        \o Call(cbs, "got_converted_acc_callback", Scaled(acc, AmpAcc(range)),
                serial, 3, i, ts)
        \o Call(cbs, "got_gyro_callback", gyro, serial, 3, i, ts)
        \o Call(cbs, "got_converted_gyro_callback", Scaled(gyro, AmpGyro(range)),
                serial, 3, i, ts)
        \o Call(cbs, "got_pressure_callback", Pressure(d, 20 + step),
                serial, 3, i, ts)
        \o Call(cbs, "got_quat_callback", Vec4(d, 8 + step), serial, 3, i, ts)
\* tag 55, one iteration (the quat lines are commented out)
Slot55(cbs, d, range, serial, ts, i) ==
    LET step == 24 * i
        acc == Vec3(d, 14 + step)
        gyro == Vec3(d, 8 + step)
    IN  Call(cbs, "got_acc_callback", acc, serial, 3, i, ts)
        \o Call(cbs, "got_converted_acc_callback", Scaled(acc, AmpAcc(range)),
                serial, 3, i, ts)
        \o Call(cbs, "got_gyro_callback", gyro, serial, 3, i, ts)
        \o Call(cbs, "got_converted_gyro_callback", Scaled(gyro, AmpGyro(range)),
                serial, 3, i, ts)
        \o Call(cbs, "got_pressure_callback", Pressure(d, 20 + step),
                serial, 3, i, ts)

\* tag 56, one iteration
Slot56(cbs, d, range, serial, ts, i) ==
    LET step == 32 * i
        acc == Vec3(d, 22 + step)
        gyro == Vec3(d, 16 + step)
    IN  Call(cbs, "got_acc_callback", acc, serial, 1, i, ts)
        \o Call(cbs, "got_converted_acc_callback", Scaled(acc, AmpAcc(range)),
                serial, 1, i, ts)
        \o Call(cbs, "got_gyro_callback", gyro, serial, 1, i, ts)
        \o Call(cbs, "got_converted_gyro_callback", Scaled(gyro, AmpGyro(range)),
                serial, 1, i, ts)
        \o Call(cbs, "got_pressure_callback", Pressure(d, 28 + step),
                serial, 1, i, ts)
        \o Call(cbs, "got_quat_callback", Vec4(d, 8 + step), serial, 1, i, ts)

SlotCalls(tag, cbs, d, range, serial, ts, i) ==
    CASE tag = 50 -> Slot50(cbs, d, range, serial, ts, i)
      [] tag = 55 -> Slot55(cbs, d, range, serial, ts, i)
      [] tag = 56 -> Slot56(cbs, d, range, serial, ts, i)

\* for i in range(3, -1, -1)   (range(1, -1, -1) for tag 56)
SlotOrder(tag) == IF tag = 56 THEN <<1, 0>> ELSE <<3, 2, 1, 0>>

\* tags 50 and 55: if i == 3 ... else: each_timestamp += data[28+step]
AddsDelta(tag, i) == tag # 56 /\ i # 3
DeltaIndex(tag, i) == 28 + (IF tag = 50 THEN 21 ELSE 24) * i

NextTimestampBack(ts, delta) == ts - delta
\* each_timestamp = each_timestamp + data[28+step]
NextTimestamp(ts, delta) == ts + delta

\* The loop over the slots in todo. data[28+step] raises past the end of
\* the payload, after the calls of the earlier iterations were made.
RECURSIVE SlotLoop(_, _, _, _, _, _, _, _)
SlotLoop(tag, d, range, cbs, serial, todo, ts, out) ==
    IF todo = <<>> THEN [calls |-> out, raised |-> FALSE]
    ELSE LET i == Head(todo)
         IN  IF ~RangeValid(range) \/
                (AddsDelta(tag, i) /\ DeltaIndex(tag, i) >= Len(d))
             THEN [calls |-> out, raised |-> TRUE]
             ELSE LET each == IF AddsDelta(tag, i)
                              THEN NextTimestamp(ts, d[DeltaIndex(tag, i) + 1])
                              ELSE ts
                  IN  SlotLoop(tag, d, range, cbs, serial, Tail(todo), each,
                               out \o SlotCalls(tag, cbs, d, range, serial,
                                                each, i))

SerialNumberOf(data) == FromBytesBig(Slice(data, 1, 3))

\* SensorValuesData.__init__: the subscriber calls it makes, whether it
\* raised, and self.serial_number (no attribute is set for other tags)
SensorValuesData(cbs, data, range) ==
    IF data[1] \notin {50, 55, 56}
    THEN [calls |-> <<>>, raised |-> FALSE, serial_number |-> "unset"]
    ELSE IF Len(data) < 8 \/ ~ValidTime(data[4], data[5], data[6], data[7], data[8])
    THEN [calls |-> <<>>, raised |-> TRUE, serial_number |-> SerialNumberOf(data)]
    ELSE LET r == SlotLoop(data[1], data, range, cbs, SerialNumberOf(data),
                           SlotOrder(data[1]),
                           to_timestamp(data[4], data[5], data[6], data[7], data[8]),
                           <<>>)
         IN  [calls |-> r.calls, raised |-> r.raised,
              serial_number |-> SerialNumberOf(data)]

LostOrNext(serial, prev) == serial - prev >= 1
\* if (sensor_values.serial_number - self.serial_number_prev) > 1:
Lost(serial, prev) == serial - prev > 1

LossCheckUpdateFirst(prev, serial, cbs) ==
    [calls |-> IF Lost(serial, prev) /\ "lost_data_callback" \in cbs
               THEN <<[cb |-> "lost_data_callback", previous |-> serial,
                       current |-> serial, stored |-> serial]>>
               ELSE <<>>,
     serial_number_prev |-> serial]
\* The tail of the handler: the loss callback gets (self.serial_number_prev,
\* sensor_values.serial_number); stored is self.serial_number_prev during
\* the call, which is assigned only afterwards.
LossCheck(prev, serial, cbs) ==
    [calls |-> IF Lost(serial, prev) /\ "lost_data_callback" \in cbs
               THEN <<[cb |-> "lost_data_callback", previous |-> prev,
                       current |-> serial, stored |-> prev]>>
               ELSE <<>>,
     serial_number_prev |-> serial]

\* Orphe.is_connected
is_connected(c) == c = "connected"

\* a packet that gets past the handler's tests: if data[0] == 50 or ...
StreamPacket(c, data) == is_connected(c) /\ data[1] \in {50, 55, 56}

\* sensor_values_notification_handler: what it leaves in
\* self.serial_number_prev, the subscriber calls, and whether it raised
\* (self.device_information.range raises while nothing was read)
SensorHandled(c, di, prev, cbs, data) ==
    IF ~is_connected(c) \/ data[1] \notin {40, 50, 55, 56}
    THEN [serial_number_prev |-> prev, calls |-> <<>>, raised |-> FALSE]
    ELSE IF di = <<>>
    THEN [serial_number_prev |-> prev, calls |-> <<>>, raised |-> TRUE]
    ELSE LET r == SensorValuesData(cbs, data, di[1].range)
             l == LossCheck(prev, r.serial_number, cbs)
         IN  IF r.raised \/ data[1] = 40
             THEN [serial_number_prev |-> prev, calls |-> r.calls,
                   raised |-> r.raised]
             ELSE [serial_number_prev |-> l.serial_number_prev,
                   calls |-> r.calls \o l.calls, raised |-> FALSE]

\* DeviceInformation.__init__
DeviceInformation(data) ==
    [battery |-> FromBytesBig(Slice(data, 0, 1)),
     mount_position |-> FromBytesBig(Slice(data, 1, 2)),
     range |-> [acc |-> FromBytesBig(Slice(data, 8, 9)),
                gyro |-> FromBytesBig(Slice(data, 9, 10))],
     version |-> FromBytesBig(Slice(data, 18, 19))]

\* ------------------------------------------------------------ the inputs
StepCounts == {k * StepUnit : k \in 0..MaxStep}
SubTypes == {0, 1, 2, 3, 4}

\* a 20-byte step-analysis payload: header byte, sub-type, step_count
StepPayload(sub, sc) ==
    [k \in 1..StepPayloadLen |->
        CASE k = 1 -> 0
          [] k = 2 -> sub
          [] k = 3 -> sc \div 256
          [] k = 4 -> sc % 256
          [] OTHER -> k]

StepPayloads == {StepPayload(sub, sc) : sub \in SubTypes, sc \in StepCounts}

\* a payload cut off after its step_count: too short for struct.unpack
ShortStepPayloads == {Slice(StepPayload(0, StepUnit), 0, 4)}

\* the length each layout reads: 8 header bytes and the slots
FullLength(tag) ==
    CASE tag = 55 -> 8 + 4 * 24
      [] tag = 56 -> 8 + 2 * 32
      [] OTHER -> 8 + 4 * 21

\* a sensor packet: tag, serial number, 01:02:03.260, then distinct bytes
SensorPacket(tag, serial, len) ==
    [k \in 1..len |->
        CASE k = 1 -> tag
          [] k = 2 -> serial \div 256
          [] k = 3 -> serial % 256
          [] k \in 4..6 -> k - 3
          [] k = 7 -> 1
          [] k = 8 -> 4
          [] OTHER -> (37 * k + 11) % 256]

Serials == 0..MaxSerialLow \cup {65535}
Tags == {40, 50, 55, 56, 57}
SensorPackets ==
    {SensorPacket(tag, serial, FullLength(tag)) : tag \in Tags, serial \in Serials}
\* a tag-50 packet cut off inside its second slot
ShortSensorPackets == {SensorPacket(50, 1, 60)}

\* full packets of tags 50 and 55 whose bytes data[28+step] of slots 2, 1
\* and 0 are ds[1], ds[2] and ds[3]
DeltaValues == {0, 1, 255}
DeltaPacket(tag, ds) ==
    [SensorPacket(tag, 1, FullLength(tag)) EXCEPT
        ![DeltaIndex(tag, 2) + 1] = ds[1],
        ![DeltaIndex(tag, 1) + 1] = ds[2],
        ![DeltaIndex(tag, 0) + 1] = ds[3]]
DeltaPackets ==
    {DeltaPacket(tag, ds) : tag \in {50, 55}, ds \in [1..3 -> DeltaValues]}

\* packets of the three stream tags cut off inside the header, after the
\* header, inside a slot and one byte before the end of the shortest layout
TruncatedLengths == {5, 8, 40, 71}
TruncatedSensorPackets ==
    {SensorPacket(tag, 1, len) : tag \in {50, 55, 56}, len \in TruncatedLengths}

\* what the device answers to a read of the device-information
\* characteristic: battery, mount position, ranges at 8 and 9, version at 18
DeviceReply(mount, acc, gyro) ==
    [k \in 1..20 |->
        CASE k = 1 -> 80
          [] k = 2 -> mount
          [] k = 9 -> acc
          [] k = 10 -> gyro
          [] k = 19 -> 3
          [] OTHER -> 0]

DeviceReplies == {DeviceReply(0, 0, 3), DeviceReply(1, 2, 0)}

\* ------------------------------------------------------------- transport
\* one call on the transport, as the operation saw it: a read_gatt_char of
\* the device-information characteristic and the bytes it returned, a
\* write_gatt_char and the bytes handed over, or the asyncio.sleep after a
\* write; ok is FALSE when the call raised
Read(reply, ok) ==
    [op |-> "read", data |-> IF ok THEN reply ELSE <<>>, ok |-> ok]
Write(payload, ok) == [op |-> "write", data |-> payload, ok |-> ok]

NoSettle == <<>>
\* await asyncio.sleep(WRITE_WAIT_INTERVAL_SEC): the settle wait
Settle == <<[op |-> "sleep", data |-> <<>>, ok |-> TRUE]>>

\* await self.client.write_gatt_char(..., payload), then the settle wait;
\* a client of None has no write_gatt_char, and the call raises when the
\* session is not connected or the transport fails (ok = FALSE)
WriteThenSettle(c, payload, ok) ==
    IF c = "None" THEN [io |-> <<>>, raised |-> TRUE]
    ELSE LET sent == is_connected(c) /\ ok
         IN  [io |-> <<Write(payload, sent)>> \o (IF sent THEN Settle ELSE <<>>),
              raised |-> ~sent]

\* -------------------------------------------------- device configuration
RECURSIVE SumBytes(_, _)
\* for i in range(0, n): checksum += data[i]
SumBytes(data, n) == IF n = 0 THEN 0 ELSE SumBytes(data, n - 1) + data[n]

ChecksumUnmasked(data) == SumBytes(data, 19)
\* getChecksum: the sum of data[0..18], & 0xFF
getChecksum(data) == SumBytes(data, 19) % 256

\* the 19 bytes write_device_information builds from the stored information
ba_write(di) ==
    <<9, di.mount_position, 0, 0, 1, 0, 60, di.range.acc, di.range.gyro,
      0, 0, 0, 255, 0, 0, 0, 0, 0, di.version>>

\* bytearray([...]) raises unless every element is in range(256)
IsByte(v) == v \in 0..255

\* write_device_information: self.device_information raises while no
\* read has created the attribute
WriteDeviceInformation(c, di, ok) ==
    IF di = <<>> THEN [io |-> <<>>, raised |-> TRUE]
    ELSE LET ba == ba_write(di[1])
         IN  IF \E k \in DOMAIN ba : ~IsByte(ba[k])
             THEN [io |-> <<>>, raised |-> TRUE]
             ELSE WriteThenSettle(c, ba \o <<getChecksum(ba)>>, ok)

\* read_device_information: read_gatt_char, decode, store in
\* self.device_information; nothing is stored when the read raises
ReadDeviceInformation(c, di, reply) ==
    IF c = "None" THEN [di |-> di, io |-> <<>>, raised |-> TRUE]
    ELSE IF ~is_connected(c)
    THEN [di |-> di, io |-> <<Read(reply, FALSE)>>, raised |-> TRUE]
    ELSE [di |-> <<DeviceInformation(reply)>>, io |-> <<Read(reply, TRUE)>>,
          raised |-> FALSE]

StartNotify(ok) == [op |-> "start_notify", data |-> <<>>, ok |-> ok]

StartWithoutRead(c, di, reply, ok) ==
    IF c = "None"
    THEN [di |-> di, io |-> <<>>, raised |-> TRUE, subscribed |-> FALSE]
    ELSE LET started == is_connected(c) /\ ok
         IN  [di |-> di, io |-> <<StartNotify(started)>>,
              raised |-> ~started, subscribed |-> started]
\* start_sensor_values_notification: read_device_information, then
\* start_notify, which is not reached when the read raises and raises
\* itself when the transport refuses (ok = FALSE)
StartSensorValues(c, di, reply, ok) ==
    LET r == ReadDeviceInformation(c, di, reply)
    IN  IF r.raised
        THEN [di |-> r.di, io |-> r.io, raised |-> TRUE, subscribed |-> FALSE]
        ELSE [di |-> r.di, io |-> r.io \o <<StartNotify(ok)>>,
              raised |-> ~ok, subscribed |-> ok]

ValidMountUpTo4(v) == ~(v < 0 \/ v > 4)
\* if mount_position < 0 or mount_position > 3: return
ValidMount(v) == ~(v < 0 \/ v > 3)
AccRanges == <<2, 4, 8, 16>>
GyroRanges == <<250, 500, 1000, 2000>>
\* if acc_range != 2 and acc_range != 4 and ...: return
ValidAcc(v) == ~(v # 2 /\ v # 4 /\ v # 8 /\ v # 16)
ValidGyro(v) == ~(v # 250 /\ v # 500 /\ v # 1000 /\ v # 2000)
\* if mode != 1 and mode != 3 and mode != 4: return
ValidMode(v) == ~(v # 1 /\ v # 3 /\ v # 4)
\* [2, 4, 8, 16].index(acc_range)
IndexOf(list, v) == CHOOSE k \in 0..(Len(list) - 1) : list[k + 1] = v

AssignFieldOnly(di, field, v) ==
    [battery |-> 0,
     mount_position |-> IF field = "mount_position" THEN v ELSE 0,
     range |-> [acc |-> IF field = "acc" THEN v ELSE 0,
                gyro |-> IF field = "gyro" THEN v ELSE 0],
     version |-> 0]
\* di.mount_position = mount_position, di.range.acc = acc_range,
\* di.range.gyro = gyro_range: di is the stored object itself
AssignField(di, field, v) ==
    CASE field = "mount_position" -> [di EXCEPT !.mount_position = v]
      [] field = "acc" -> [di EXCEPT !.range.acc = v]
      [] field = "gyro" -> [di EXCEPT !.range.gyro = v]

ConfigSetterNoRead(c, di, valid, field, v, reply, ok) ==
    IF ~valid THEN [di |-> di, io |-> <<>>, raised |-> FALSE]
    ELSE IF di = <<>> THEN [di |-> di, io |-> <<>>, raised |-> TRUE]
    ELSE LET stored == <<AssignField(di[1], field, v)>>
             w == WriteDeviceInformation(c, stored, ok)
         IN  [di |-> stored, io |-> w.io, raised |-> w.raised]
\* set_mount_position, set_acc_range, set_gyro_range after the argument
\* test: read, assign the field of the stored object, write
ConfigSetter(c, di, valid, field, v, reply, ok) ==
    IF ~valid THEN [di |-> di, io |-> <<>>, raised |-> FALSE]
    ELSE LET r == ReadDeviceInformation(c, di, reply)
         IN  IF r.raised THEN r
             ELSE LET stored == <<AssignField(r.di[1], field, v)>>
                      w == WriteDeviceInformation(c, stored, ok)
                  IN  [di |-> stored, io |-> r.io \o w.io, raised |-> w.raised]

\* set_data_streaming_mode: bytearray([0x0D, mode])
StreamingMode(c, mode, ok) ==
    IF ~ValidMode(mode) THEN [io |-> <<>>, raised |-> FALSE]
    ELSE WriteThenSettle(c, <<13, mode>>, ok)

\* the arguments offered to the setters
MountArgs == {-1, 0, 1, 2, 3, 4}
AccArgs == {0, 2, 3, 4, 8, 16}
GyroArgs == {0, 250, 500, 1000, 2000}
ModeArgs == {0, 1, 2, 3, 4}

\* ---------------------------------------------------------------- monitors
\* asyncio.create_task(self.monitor_connection(self.client)): the task polls
\* its own client; link is that client's is_connected ("up" or "down"),
\* running is FALSE after the break, invoked counts its calls of
\* on_disconnect_callback
NewMonitor == [link |-> "up", running |-> TRUE, invoked |-> 0]

PolledAlways(link) == TRUE
\* if not client.is_connected:
LinkLost(link) == link = "down"

\* ----------------------------------------------------------------- state
Snapshot ==
    [step_count |-> step_count, serial_number_prev |-> serial_number_prev]

Ran(op, data, raised) == [op |-> op, data |-> data, raised |-> raised]

\* no setter is between its first await and its return
Idle == [pc |-> "idle", field |-> "none", index |-> 0,
         read |-> [acc |-> 0, gyro |-> 0]]

NotWatching == [cat |-> "none", sc |-> 0, lowered |-> FALSE, again |-> FALSE]

\* Orphe.__init__: no callback attribute exists yet
Init ==
    /\ client = "None"
    /\ device_information = <<>>
    /\ step_count = StepCountInit
    /\ serial_number_prev = 0
    /\ callbacks = {}
    /\ pre = [step_count |-> StepCountInit, serial_number_prev |-> 0]
    /\ last = Ran("__init__", <<>>, FALSE)
    /\ calls = <<>>
    /\ transport = <<>>
    /\ monitors = <<>>
    /\ notifying = {}
    /\ setter = Idle
    /\ watch = NotWatching
    /\ received = 0

\* set_*_callback(callback): fn is the argument's truth value (a callable,
\* or None, which clears the subscriber)
SetCallback(cb, fn) ==
    /\ callbacks' = IF fn THEN callbacks \cup {cb} ELSE callbacks \ {cb}
    /\ pre' = Snapshot
    /\ last' = Ran("set_callback", <<>>, FALSE)
    /\ calls' = <<>>
    /\ transport' = <<>>
    /\ UNCHANGED <<session, observed, background>>

set_got_gait_callback ==
    \E fn \in BOOLEAN : SetCallback("got_gait_callback", fn)
set_got_stride_callback ==
    \E fn \in BOOLEAN : SetCallback("got_stride_callback", fn)
set_got_pronation_callback ==
    \E fn \in BOOLEAN : SetCallback("got_pronation_callback", fn)
set_got_quat_distance_callback ==
    \E fn \in BOOLEAN : SetCallback("got_quat_distance_callback", fn)

\* step_analysis_notification_handler: StepAnalysisData(self, data)
step_analysis_notification_handler ==
    \E data \in StepPayloads \cup ShortStepPayloads :
        LET r == StepAnalysisData(step_count, callbacks, data)
        IN  /\ step_count' = r.step_count
            /\ calls' = r.calls
            /\ pre' = Snapshot
            /\ last' = Ran("step_analysis_notification_handler", data, r.raised)
            /\ transport' = <<>>
            /\ UNCHANGED <<client, device_information, serial_number_prev,
                           callbacks, observed, background>>

set_lost_data_callback ==
    \E fn \in BOOLEAN : SetCallback("lost_data_callback", fn)
\* connect: no target device found (returns False before a client exists),
\* or BleakClient.connect() leaves the client connected or not
connect ==
    \E outcome \in {"not found", "connected", "disconnected"} :
        /\ outcome = "connected" => Len(monitors) < MaxMonitors
        /\ client' = IF outcome = "not found" THEN client ELSE outcome
        /\ monitors' = IF outcome = "connected"
                       THEN Append(monitors, NewMonitor) ELSE monitors
        /\ notifying' = IF outcome = "not found" THEN notifying ELSE {}
        /\ pre' = Snapshot
        /\ last' = Ran("connect", <<>>, FALSE)
        /\ calls' = <<>>
        /\ transport' = <<>>
        /\ UNCHANGED <<device_information, step_count, serial_number_prev,
                       callbacks, setter, observed>>

\* the transport loses the connection, or disconnect() ends it
disconnect ==
    /\ client = "connected"
    /\ client' = "disconnected"
    /\ monitors' = [monitors EXCEPT ![Len(monitors)].link = "down"]
    /\ notifying' = {}
    /\ pre' = Snapshot
    /\ last' = Ran("disconnect", <<>>, FALSE)
    /\ calls' = <<>>
    /\ transport' = <<>>
    /\ UNCHANGED <<device_information, step_count, serial_number_prev,
                   callbacks, setter, observed>>

\* read_device_information: read_gatt_char raises unless connected
read_device_information ==
    \E reply \in DeviceReplies :
        /\ device_information' =
               ReadDeviceInformation(client, device_information, reply).di
        /\ pre' = Snapshot
        /\ last' = Ran("read_device_information", reply, ~is_connected(client))
        /\ calls' = <<>>
        /\ transport' =
               ReadDeviceInformation(client, device_information, reply).io
        /\ UNCHANGED <<client, step_count, serial_number_prev, callbacks, observed, background>>

SensorNotification(data) ==
    LET r == SensorHandled(client, device_information, serial_number_prev,
                           callbacks, data)
    IN  /\ serial_number_prev' = r.serial_number_prev
        /\ calls' = r.calls
        /\ pre' = Snapshot
        /\ last' = Ran("sensor_values_notification_handler", data, r.raised)
        /\ transport' = <<>>
        /\ received' = IF StreamPacket(client, data)
                       THEN Min(received + 1, MaxReceived) ELSE received
        /\ UNCHANGED <<client, device_information, step_count,
                       callbacks, watch, background>>

sensor_values_notification_handler ==
    \E data \in SensorPackets \cup ShortSensorPackets : SensorNotification(data)

NextLoss ==
    \/ connect
    \/ disconnect
    \/ read_device_information
    \/ set_lost_data_callback
    \/ sensor_values_notification_handler

SpecLoss == Init /\ [][NextLoss]_vars

\* -------------------------------------------- the configuration operations
\* what a configuration operation leaves behind: op's argument in last
ConfigOp(op, arg, di, io, raised) ==
    /\ device_information' = di
    /\ transport' = io
    /\ last' = Ran(op, <<arg>>, raised)
    /\ calls' = <<>>
    /\ pre' = Snapshot
    /\ UNCHANGED <<client, step_count, serial_number_prev, callbacks, observed, background>>

write_device_information ==
    \E ok \in BOOLEAN :
        LET w == WriteDeviceInformation(client, device_information, ok)
        IN  ConfigOp("write_device_information", 0, device_information,
                     w.io, w.raised)

set_mount_position ==
    \E mount_position \in MountArgs, reply \in DeviceReplies, ok \in BOOLEAN :
        LET r == ConfigSetter(client, device_information,
                              ValidMount(mount_position), "mount_position",
                              mount_position, reply, ok)
        IN  ConfigOp("set_mount_position", mount_position, r.di, r.io, r.raised)

set_acc_range ==
    \E acc_range \in AccArgs, reply \in DeviceReplies, ok \in BOOLEAN :
        LET r == ConfigSetter(client, device_information, ValidAcc(acc_range),
                              "acc",
                              IF ValidAcc(acc_range)
                              THEN IndexOf(AccRanges, acc_range) ELSE acc_range,
                              reply, ok)
        IN  ConfigOp("set_acc_range", acc_range, r.di, r.io, r.raised)

set_gyro_range ==
    \E gyro_range \in GyroArgs, reply \in DeviceReplies, ok \in BOOLEAN :
        LET r == ConfigSetter(client, device_information, ValidGyro(gyro_range),
                              "gyro",
                              IF ValidGyro(gyro_range)
                              THEN IndexOf(GyroRanges, gyro_range) ELSE gyro_range,
                              reply, ok)
        IN  ConfigOp("set_gyro_range", gyro_range, r.di, r.io, r.raised)

set_data_streaming_mode ==
    \E mode \in ModeArgs, ok \in BOOLEAN :
        LET r == StreamingMode(client, mode, ok)
        IN  ConfigOp("set_data_streaming_mode", mode, device_information,
                     r.io, r.raised)

NextConfig ==
    \/ connect
    \/ disconnect
    \/ read_device_information
    \/ write_device_information
    \/ set_mount_position
    \/ set_acc_range
    \/ set_gyro_range
    \/ set_data_streaming_mode

SpecConfig == Init /\ [][NextConfig]_vars

\* ------------------------------------------------- the codec on its own
\* the firmware versions offered
Versions == {0, 3, 255}
VersionedReply(mount, acc, gyro, version) ==
    [DeviceReply(mount, acc, gyro) EXCEPT ![19] = version]

\* a connected session that has read, from the device, any mount position
\* and range indices in 0..3 and any of the versions
InitCodec ==
    /\ client = "connected"
    /\ device_information \in
           {<<DeviceInformation(VersionedReply(m, a, g, v))>> :
               m \in 0..3, a \in 0..3, g \in 0..3, v \in Versions}
    /\ step_count = StepCountInit
    /\ serial_number_prev = 0
    /\ callbacks = {}
    /\ pre = [step_count |-> StepCountInit, serial_number_prev |-> 0]
    /\ last = Ran("read_device_information", <<>>, FALSE)
    /\ calls = <<>>
    /\ transport = <<>>
    /\ monitors = <<NewMonitor>>
    /\ notifying = {}
    /\ setter = Idle
    /\ watch = NotWatching
    /\ received = 0

SpecCodec == InitCodec /\ [][write_device_information]_vars

\* ------------------------------------------------------ the liveness watch
set_on_disconnect_callback ==
    \E fn \in BOOLEAN : SetCallback("on_disconnect_callback", fn)

\* monitor_connection, task k: the poll after a sleep that finds its client
\* not connected calls disconnect_callback (which calls
\* on_disconnect_callback if the attribute is set) and breaks; a poll that
\* finds the client connected changes nothing
Poll(k) ==
    /\ k \in DOMAIN monitors
    /\ monitors[k].running
    /\ LinkLost(monitors[k].link)
    /\ LET invoke == "on_disconnect_callback" \in callbacks
       IN  /\ monitors' =
                 [monitors EXCEPT ![k] =
                     [link |-> @.link, running |-> FALSE,
                      invoked |-> @.invoked + (IF invoke THEN 1 ELSE 0)]]
           /\ calls' = IF invoke
                       THEN <<[cb |-> "on_disconnect_callback", monitor |-> k]>>
                       ELSE <<>>
    /\ pre' = Snapshot
    /\ last' = Ran("monitor_connection", <<k>>, FALSE)
    /\ transport' = <<>>
    /\ UNCHANGED <<session, callbacks, notifying, setter, observed>>

monitor_connection == \E k \in 1..MaxMonitors : Poll(k)

\* the transport loses the link of a client that a later connect replaced
\* (self.client is another client by now; the old task still polls it)
connection_lost ==
    \E k \in DOMAIN monitors :
        /\ monitors[k].link = "up"
        /\ ~(k = Len(monitors) /\ is_connected(client))
        /\ monitors' = [monitors EXCEPT ![k].link = "down"]
        /\ pre' = Snapshot
        /\ last' = Ran("connection_lost", <<k>>, FALSE)
        /\ calls' = <<>>
        /\ transport' = <<>>
        /\ UNCHANGED <<session, callbacks, notifying, setter, observed>>

NextWatch ==
    \/ connect
    \/ disconnect
    \/ connection_lost
    \/ set_on_disconnect_callback
    \/ monitor_connection

\* the event loop keeps running every monitor task
SpecWatch ==
    /\ Init
    /\ [][NextWatch]_vars
    /\ \A k \in 1..MaxMonitors : WF_vars(Poll(k))

\* ------------------------------------------------------ the sensor stream
set_got_converted_acc_callback ==
    \E fn \in BOOLEAN : SetCallback("got_converted_acc_callback", fn)

start_sensor_values_notification ==
    \E reply \in DeviceReplies, ok \in BOOLEAN :
        LET r == StartSensorValues(client, device_information, reply, ok)
        IN  /\ device_information' = r.di
            /\ notifying' = IF r.subscribed
                            THEN notifying \cup {"sensor_values"}
                            ELSE notifying
            /\ pre' = Snapshot
            /\ last' = Ran("start_sensor_values_notification", reply, r.raised)
            /\ calls' = <<>>
            /\ transport' = r.io
            /\ UNCHANGED <<client, step_count, serial_number_prev, callbacks,
                           monitors, setter, observed>>

\* stop_sensor_values_notification: stop_notify raises without a client
\* and on a client that is not connected
stop_sensor_values_notification ==
    /\ notifying' = IF is_connected(client)
                    THEN notifying \ {"sensor_values"} ELSE notifying
    /\ pre' = Snapshot
    /\ last' = Ran("stop_sensor_values_notification", <<>>,
                   ~is_connected(client))
    /\ calls' = <<>>
    /\ transport' = <<>>
    /\ UNCHANGED <<session, callbacks, monitors, setter, observed>>

\* the client hands a notification of the subscribed characteristic to the
\* handler given to start_notify
sensor_values_notified ==
    /\ "sensor_values" \in notifying
    /\ sensor_values_notification_handler

NextStream ==
    \/ connect
    \/ disconnect
    \/ set_got_converted_acc_callback
    \/ start_sensor_values_notification
    \/ stop_sensor_values_notification
    \/ sensor_values_notified

SpecStream == Init /\ [][NextStream]_vars

\* ------------------------------------- a range setter beside the stream
\* set_acc_range and set_gyro_range await the transport three times: the
\* read inside read_device_information, write_gatt_char and the sleep
\* inside write_device_information. The event loop may run a notification
\* handler at each of them.
SetterName(field) == IF field = "acc" THEN "set_acc_range" ELSE "set_gyro_range"

SetterStep(next, di, io, raised) ==
    /\ setter' = next
    /\ device_information' = di
    /\ pre' = Snapshot
    /\ last' = Ran(SetterName(setter.field), <<setter.index>>, raised)
    /\ calls' = <<>>
    /\ transport' = io
    /\ UNCHANGED <<client, step_count, serial_number_prev, callbacks,
                   monitors, notifying, observed>>

\* the call up to await self.client.read_gatt_char(...): the argument is
\* tested and converted to its index
set_range_called ==
    \E field \in {"acc", "gyro"}, v \in AccArgs \cup GyroArgs :
        /\ setter.pc = "idle"
        /\ IF field = "acc" THEN ValidAcc(v) ELSE ValidGyro(v)
        /\ setter' = [pc |-> "read", field |-> field,
                      index |-> IndexOf(IF field = "acc" THEN AccRanges
                                        ELSE GyroRanges, v),
                      read |-> Idle.read]
        /\ pre' = Snapshot
        /\ last' = Ran(SetterName(field), <<v>>, FALSE)
        /\ calls' = <<>>
        /\ transport' = <<>>
        /\ UNCHANGED <<session, callbacks, monitors, notifying, observed>>

\* the read returns: the decoded object is stored, the new index is
\* assigned to it, and write_device_information runs up to
\* await self.client.write_gatt_char(...)
set_range_read ==
    \E reply \in DeviceReplies :
        /\ setter.pc = "read"
        /\ LET r == ReadDeviceInformation(client, device_information, reply)
           IN  IF r.raised
               THEN SetterStep(Idle, r.di, r.io, TRUE)
               ELSE SetterStep([setter EXCEPT !.pc = "write",
                                              !.read = r.di[1].range],
                               <<AssignField(r.di[1], setter.field,
                                             setter.index)>>,
                               r.io, FALSE)

\* write_gatt_char returns or raises; on return the setter is at
\* await asyncio.sleep(WRITE_WAIT_INTERVAL_SEC)
set_range_written ==
    \E ok \in BOOLEAN :
        /\ setter.pc = "write"
        /\ LET w == WriteDeviceInformation(client, device_information, ok)
           IN  IF w.raised
               THEN SetterStep(Idle, device_information, w.io, TRUE)
               ELSE SetterStep([setter EXCEPT !.pc = "settle"],
                               device_information, <<w.io[1]>>, FALSE)

\* the sleep is over and the setter returns
set_range_settled ==
    /\ setter.pc = "settle"
    /\ SetterStep(Idle, device_information, Settle, FALSE)

\* the notifications offered while a setter may be running
RacePackets == {SensorPacket(tag, 1, FullLength(tag)) : tag \in {50, 56}}
sensor_values_notified_beside ==
    /\ "sensor_values" \in notifying
    /\ \E data \in RacePackets : SensorNotification(data)

\* a connected session that streams: the device information was read by
\* start_sensor_values_notification, the two scaled subscribers are set
InitRace ==
    /\ client = "connected"
    /\ device_information \in
           {<<DeviceInformation(reply)>> : reply \in DeviceReplies}
    /\ step_count = StepCountInit
    /\ serial_number_prev = 0
    /\ callbacks = {"got_converted_acc_callback", "got_converted_gyro_callback"}
    /\ pre = [step_count |-> StepCountInit, serial_number_prev |-> 0]
    /\ last = Ran("start_sensor_values_notification", <<>>, FALSE)
    /\ calls = <<>>
    /\ transport = <<>>
    /\ monitors = <<NewMonitor>>
    /\ notifying = {"sensor_values"}
    /\ setter = Idle
    /\ watch = NotWatching
    /\ received = 0

NextRace ==
    \/ set_range_called
    \/ set_range_read
    \/ set_range_written
    \/ set_range_settled
    \/ sensor_values_notified_beside

SpecRace == InitRace /\ [][NextRace]_vars

\* ------------------------------------------------- the bit-field decoders
Byte == 0..255
\* a gait-overview (sub-type 0) or quat-distance (sub-type 4) payload
\* whose byte 4 is b
FieldPayload(sub, b) == [StepPayload(sub, StepUnit) EXCEPT ![5] = b]

InitFields ==
    /\ client = "None"
    /\ device_information = <<>>
    /\ step_count = StepCountInit
    /\ serial_number_prev = 0
    /\ callbacks = {}
    /\ pre = [step_count |-> StepCountInit, serial_number_prev |-> 0]
    /\ last \in {Ran("data", FieldPayload(sub, b), FALSE) :
                    sub \in {0, 4}, b \in Byte}
    /\ calls = <<>>
    /\ transport = <<>>
    /\ monitors = <<>>
    /\ notifying = {}
    /\ setter = Idle
    /\ watch = NotWatching
    /\ received = 0

\* self.gait = GaitData(data), in the branch data[1] == 0
gait_data ==
    /\ last.op = "data" /\ last.data[2] = 0
    /\ calls' = <<GaitData(last.data)>>
    /\ last' = Ran("GaitData", last.data, FALSE)
    /\ UNCHANGED <<session, callbacks, pre, transport, observed, background>>

\* self.quat_distance = QuatDistanceData(data), in the branch data[1] == 4
quat_distance_data ==
    /\ last.op = "data" /\ last.data[2] = 4
    /\ calls' = <<QuatDistanceData(last.data)>>
    /\ last' = Ran("QuatDistanceData", last.data, FALSE)
    /\ UNCHANGED <<session, callbacks, pre, transport, observed, background>>

NextFields == gait_data \/ quat_distance_data

SpecFields == InitFields /\ [][NextFields]_vars

\* ------------------------------------------- one notification on its own
NotifyCallbacks == {"got_gait_callback", "lost_data_callback", "got_acc_callback"}

\* the session as a notification may find it: never connected, connected
\* or no longer connected; the device information read or not (a serial
\* number is only recorded once it was read); any step counts and serial
\* number recorded so far (none before a first packet); any of the three
\* subscribers set
InitNotify ==
    /\ client \in {"None", "connected", "disconnected"}
    /\ device_information \in
           {<<>>} \cup {<<DeviceInformation(reply)>> : reply \in DeviceReplies}
    /\ client = "None" => device_information = <<>>
    /\ step_count \in
           {[cat \in DOMAIN StepCountInit |-> sc] : sc \in StepCounts}
    /\ serial_number_prev \in Serials
    /\ device_information = <<>> => serial_number_prev = 0
    /\ callbacks \in SUBSET NotifyCallbacks
    /\ pre = [step_count |-> step_count,
              serial_number_prev |-> serial_number_prev]
    /\ last = Ran("session", <<>>, FALSE)
    /\ calls = <<>>
    /\ transport = <<>>
    /\ monitors = CASE client = "connected" -> <<NewMonitor>>
                    [] client = "disconnected" ->
                         <<[NewMonitor EXCEPT !.link = "down"]>>
                    [] OTHER -> <<>>
    /\ notifying = {}
    /\ setter = Idle
    /\ watch = NotWatching
    /\ received \in 0..MaxReceived
    /\ serial_number_prev # 0 => received >= 1
    /\ client = "None" => received = 0

NextNotify ==
    \/ last.op = "session" /\ step_analysis_notification_handler
    \/ last.op = "session" /\ sensor_values_notification_handler

SpecNotify == InitNotify /\ [][NextNotify]_vars

\* ------------------------------------------------ the decoder on its own
SensorCallbacks ==
    {"got_acc_callback", "got_converted_acc_callback", "got_gyro_callback",
     "got_converted_gyro_callback", "got_quat_callback", "got_pressure_callback"}

\* SensorValuesData(owner, data, sensor_range) for every owner (the sensor
\* callbacks it has), payload and range read from the device
InitDecode ==
    /\ client = "connected"
    /\ device_information \in {<<DeviceInformation(reply)>> : reply \in DeviceReplies}
    /\ step_count = StepCountInit
    /\ serial_number_prev = 0
    /\ callbacks \in SUBSET SensorCallbacks
    /\ pre = [step_count |-> StepCountInit, serial_number_prev |-> 0]
    /\ last \in {Ran("data", data, FALSE) :
                    data \in SensorPackets \cup ShortSensorPackets
                             \cup DeltaPackets \cup TruncatedSensorPackets}
    /\ calls = <<>>
    /\ transport = <<>>
    /\ monitors = <<NewMonitor>>
    /\ notifying = {}
    /\ setter = Idle
    /\ watch = NotWatching
    /\ received = 0

Decode ==
    /\ last.op = "data"
    /\ LET r == SensorValuesData(callbacks, last.data, device_information[1].range)
       IN  /\ calls' = r.calls
           /\ last' = Ran("SensorValuesData", last.data, r.raised)
    /\ UNCHANGED <<session, callbacks, pre, transport, observed, background>>

SpecDecode == InitDecode /\ [][Decode]_vars

NextStep ==
    \/ set_got_gait_callback
    \/ set_got_stride_callback
    \/ set_got_pronation_callback
    \/ set_got_quat_distance_callback
    \/ step_analysis_notification_handler

SpecStep == Init /\ [][NextStep]_vars

\* ---------------------------------------------------- the dedup observer
\* The observer may start following any one emission of a dedup category.
\* From then on it notes whether a lower step_count of that category was
\* handled (lowered) and whether the same step_count was handed to the
\* subscriber once more (again).
Follow(w, cat, sc, invoked) ==
    IF w.cat = "none"
    THEN IF invoked /\ cat \in DedupCategories
         THEN {w, [cat |-> cat, sc |-> sc, lowered |-> FALSE, again |-> FALSE]}
         ELSE {w}
    ELSE IF w.cat = cat /\ ~w.again
         THEN {[w EXCEPT !.lowered = @ \/ sc < w.sc,
                         !.again = invoked /\ sc = w.sc]}
         ELSE {w}

\* the same handler, seen by the observer instead of the call log
step_analysis_notification_followed ==
    \E data \in StepPayloads :
        LET r == StepAnalysisData(step_count, callbacks, data)
        IN  /\ step_count' = r.step_count
            /\ watch' \in Follow(watch, CategoryOf(data[2]), StepCountOf(data),
                                 r.calls # <<>>)
            /\ UNCHANGED <<client, device_information, serial_number_prev,
                           callbacks, pre, last, calls, transport, background,
                           received>>

SetCallbackFollowed(cb, fn) ==
    /\ callbacks' = IF fn THEN callbacks \cup {cb} ELSE callbacks \ {cb}
    /\ UNCHANGED <<session, pre, last, calls, transport, observed, background>>

NextDedup ==
    \/ \E fn \in BOOLEAN : SetCallbackFollowed("got_gait_callback", fn)
    \/ \E fn \in BOOLEAN : SetCallbackFollowed("got_stride_callback", fn)
    \/ \E fn \in BOOLEAN : SetCallbackFollowed("got_pronation_callback", fn)
    \/ \E fn \in BOOLEAN : SetCallbackFollowed("got_quat_distance_callback", fn)
    \/ step_analysis_notification_followed

SpecDedup == Init /\ [][NextDedup]_vars

\* ------------------------------------------------- step-analysis claims
HandledStep == last.op = "step_analysis_notification_handler"
WellFormedStep == HandledStep /\ Decodable(last.data)
LastCategory == CategoryOf(last.data[2])
\* bytes 2-3 of the payload, unsigned big-endian
LastStepCount == 256 * last.data[3] + last.data[4]
Invocation(cat, sc) == [cb |-> CallbackOf(cat), step_count |-> sc]

\* C1: a well-formed gait, stride or pronation payload invokes that
\* category's subscriber iff its step_count is strictly greater than the
\* step_count recorded for the category; nothing else is invoked for it.
C1_EmitsIffAdvances ==
    (WellFormedStep /\ LastCategory \in DedupCategories) =>
        IF /\ LastStepCount > pre.step_count[LastCategory]
           /\ CallbackOf(LastCategory) \in callbacks
        THEN calls = <<Invocation(LastCategory, LastStepCount)>>
        ELSE calls = <<>>

C1_Witness_Emitted ==
    /\ WellFormedStep /\ LastCategory = "stride"
    /\ pre.step_count.stride = StepUnit
    /\ LastStepCount > StepUnit
    /\ calls # <<>>

C1_Witness_Suppressed ==
    /\ WellFormedStep /\ LastCategory = "gait"
    /\ "got_gait_callback" \in callbacks
    /\ LastStepCount = pre.step_count.gait /\ LastStepCount > 0
    /\ calls = <<>>

\* C3: after a well-formed payload of sub-type 0, 1, 2 or 4 the step_count
\* recorded for its category is the payload's, emitted or not.
C3_RecordsStepCount ==
    (WellFormedStep /\ LastCategory # "none") =>
        step_count[LastCategory] = LastStepCount

C3_Witness_Lowered ==
    /\ WellFormedStep /\ LastCategory = "pronation"
    /\ LastStepCount < pre.step_count.pronation
    /\ calls = <<>>
    /\ step_count.pronation = LastStepCount

\* the step that handles the payload handled last once more, with the
\* category's subscriber set
RepeatsLast ==
    /\ WellFormedStep
    /\ LastCategory \in DedupCategories
    /\ CallbackOf(LastCategory) \in callbacks
    /\ last'.op = "step_analysis_notification_handler"
    /\ last'.data = last.data

\* C4 as stated: the same gait, stride or pronation payload handled twice
\* in a row invokes the subscriber exactly once over the two calls, from
\* any session state.
C4_Original_ExactlyOnce ==
    [][RepeatsLast => Len(calls) + Len(calls') = 1]_vars

\* C4 amended: the second call never invokes the subscriber, and the first
\* does exactly when the step_count exceeds the one recorded before it: one
\* invocation over the two calls then, none otherwise.
C4_OnceIfAdvancedElseNever ==
    [][RepeatsLast =>
          /\ calls' = <<>>
          /\ Len(calls) =
               IF LastStepCount > pre.step_count[LastCategory] THEN 1 ELSE 0]_vars

\* the state after the second of two equal payloads
C4_Witness_Repeated ==
    /\ WellFormedStep /\ LastCategory = "gait"
    /\ "got_gait_callback" \in callbacks
    /\ pre.step_count.gait = LastStepCount /\ LastStepCount = 2 * StepUnit
    /\ step_count.gait = LastStepCount
    /\ calls = <<>>

\* C5: a well-formed quat-distance payload invokes the quat-distance
\* subscriber exactly once, whatever its step_count, and the recorded quat
\* step_count becomes the payload's.
C5_QuatAlwaysEmitted ==
    (WellFormedStep /\ LastCategory = "quat") =>
        /\ step_count.quat = LastStepCount
        /\ calls = IF "got_quat_distance_callback" \in callbacks
                   THEN <<Invocation("quat", LastStepCount)>> ELSE <<>>

C5_Witness_NotAdvanced ==
    /\ WellFormedStep /\ LastCategory = "quat"
    /\ LastStepCount < pre.step_count.quat
    /\ Len(calls) = 1
    /\ step_count.quat = LastStepCount

\* C2 as stated: no step_count is handed twice to the subscriber of one
\* category (the followed emission never recurs).
C2_Original_NeverTwice == ~watch.again

\* C2 amended: a step_count is handed to a category's subscriber a second
\* time only after a lower step_count of that category was handled in
\* between.
C2_TwiceOnlyAfterLower == watch.again => watch.lowered

C2_Witness_EmittedAgain == watch.again /\ watch.lowered /\ watch.cat = "gait"
\* ------------------------------------------------------ sample-loss claims
HandledSensor == last.op = "sensor_values_notification_handler"
\* bytes 1-2 of the packet, unsigned big-endian
LastSerial == 256 * last.data[2] + last.data[3]
\* a tag 50/55/56 packet that the handler took in: the session connected,
\* the device information read, the decoder returned
Processed ==
    /\ HandledSensor
    /\ last.data[1] \in {50, 55, 56}
    /\ is_connected(client)
    /\ device_information # <<>>
    /\ ~last.raised
LossCalls == SelectSeq(calls, LAMBDA c : c.cb = "lost_data_callback")

\* C6: a packet whose serial number is the successor modulo 65536 of the
\* previous one (p+1, or 0 after 65535) never invokes the loss subscriber.
C6_SuccessorIsNoLoss ==
    (Processed /\ LastSerial = (pre.serial_number_prev + 1) % 65536) =>
        LossCalls = <<>>

C6_Witness_Wrap ==
    /\ Processed
    /\ "lost_data_callback" \in callbacks
    /\ pre.serial_number_prev = 65535 /\ LastSerial = 0
    /\ LossCalls = <<>>

C6_Witness_Next ==
    /\ Processed
    /\ "lost_data_callback" \in callbacks
    /\ pre.serial_number_prev = 1 /\ LastSerial = 2
    /\ LossCalls = <<>>

\* C7: whenever (c - p) mod 65536 > 1 for consecutive serial numbers p, c
\* the loss subscriber is invoked exactly once, with (p, c).
C7_LossModulo65536 ==
    (/\ Processed
     /\ "lost_data_callback" \in callbacks
     /\ (LastSerial - pre.serial_number_prev) % 65536 > 1) =>
        /\ Len(LossCalls) = 1
        /\ LossCalls[1].previous = pre.serial_number_prev
        /\ LossCalls[1].current = LastSerial

\* C8: the loss subscriber is called with (previous, current) while the
\* stored serial number is still the previous one, and once a packet has
\* been taken in the stored serial number is that packet's.
C8_CallbackBeforeUpdate ==
    Processed =>
        /\ serial_number_prev = LastSerial
        /\ \A k \in DOMAIN LossCalls :
              /\ LossCalls[k].previous = pre.serial_number_prev
              /\ LossCalls[k].current = LastSerial
              /\ LossCalls[k].stored = pre.serial_number_prev

C8_Witness_Loss ==
    /\ Processed
    /\ pre.serial_number_prev = 0 /\ LastSerial = 2
    /\ Len(LossCalls) = 1
    /\ serial_number_prev = 2

\* ------------------------------------------------------ decoder claims
\* a packet of the full length of its layout that the decoder went through
DecodedFull ==
    /\ last.op = "SensorValuesData"
    /\ last.data[1] \in {50, 55, 56}
    /\ Len(last.data) = FullLength(last.data[1])
CallsOf(cb) == SelectSeq(calls, LAMBDA c : c.cb = cb)
\* the number of events of each kind a full packet carries
Documented(tag, cb) ==
    CASE tag = 50 -> IF cb = "got_pressure_callback" THEN 0 ELSE 4
      [] tag = 55 -> IF cb = "got_quat_callback" THEN 0 ELSE 4
      [] tag = 56 -> 2

\* C9: a full packet dispatches, per subscriber that is set, 4 accel,
\* scaled-accel, gyro, scaled-gyro and quat events and no pressure event
\* for tag 50; 4 of each and of pressure but no quat event for tag 55; 2 of
\* all six for tag 56; every event carries the serial number of bytes 1-2.
C9_EventsPerTag ==
    DecodedFull =>
        /\ ~last.raised
        /\ \A cb \in SensorCallbacks :
              Len(CallsOf(cb)) =
                  IF cb \in callbacks THEN Documented(last.data[1], cb) ELSE 0
        /\ \A k \in DOMAIN calls :
              calls[k].cb \in SensorCallbacks /\ calls[k].serial_number = LastSerial

C9_Witness_Tag56 ==
    /\ DecodedFull /\ last.data[1] = 56
    /\ callbacks = SensorCallbacks
    /\ Len(calls) = 12
    /\ LastSerial = 65535

C9_Witness_Tag55 ==
    /\ DecodedFull /\ last.data[1] = 55
    /\ callbacks = SensorCallbacks
    /\ Len(calls) = 20
    /\ CallsOf("got_quat_callback") = <<>>

\* the slot count of a tag and where the accelerometer x field of slot i
\* lies in the payload
SlotCount(tag) == IF tag = 56 THEN 2 ELSE 4
AccXIndex(tag, i) ==
    CASE tag = 50 -> 22 + 21 * i
      [] tag = 55 -> 14 + 24 * i
      [] tag = 56 -> 22 + 32 * i
Signed16(hi, lo) ==
    IF 256 * hi + lo >= 32768 THEN 256 * hi + lo - 65536 ELSE 256 * hi + lo

\* C10: the events of a packet of N slots are dispatched slot by slot from
\* slot N-1 down to slot 0, a slot's events all before the next slot's, and
\* an event of slot i carries packet position N-1-i, so that the positions
\* run 0, 1, .., N-1 in dispatch order.
C10_SlotOrder ==
    DecodedFull =>
        LET n == SlotCount(last.data[1])
        IN  /\ \A k \in DOMAIN calls :
                  /\ calls[k].slot \in 0..(n - 1)
                  /\ calls[k].packet_number = n - 1 - calls[k].slot
                  /\ calls[k].cb = "got_acc_callback" =>
                        calls[k].v[1] =
                          Signed16(last.data[AccXIndex(last.data[1], calls[k].slot) + 1],
                                   last.data[AccXIndex(last.data[1], calls[k].slot) + 2])
            /\ \A j, k \in DOMAIN calls :
                  j < k => /\ calls[j].slot >= calls[k].slot
                           /\ calls[j].packet_number <= calls[k].packet_number
            /\ calls # <<>> =>
                  {calls[k].packet_number : k \in DOMAIN calls} = 0..(n - 1)

C10_Witness_Tag50 ==
    /\ DecodedFull /\ last.data[1] = 50
    /\ callbacks = SensorCallbacks
    /\ Len(calls) = 20
    /\ calls[1].slot = 3 /\ calls[1].packet_number = 0
    /\ calls[5].slot = 3 /\ calls[6].slot = 2
    /\ calls[20].slot = 0 /\ calls[20].packet_number = 3

\* the timestamp decoded from header bytes 3-7 of the packet
BaseTimestamp ==
    to_timestamp(last.data[4], last.data[5], last.data[6], last.data[7],
                 last.data[8])
\* where the delta byte of slot i lies: data[28+step] for tags 50 and 55,
\* the byte that follows the slot's 32 bytes for tag 56
DeltaByteAt(tag, i) == IF tag = 56 THEN 8 + 32 * (i + 1) ELSE DeltaIndex(tag, i)
RECURSIVE DocumentedTimestamp(_, _)
DocumentedTimestamp(tag, i) ==
    IF i = SlotCount(tag) - 1 THEN BaseTimestamp
    ELSE DocumentedTimestamp(tag, i + 1) + last.data[DeltaByteAt(tag, i) + 1]

\* C11: for tags 50, 55 and 56 the events of the slot iterated first carry
\* the base timestamp, and the events of every later slot carry the
\* timestamp of the slot before it plus that slot's delta byte.
C11_DeltaPerSlot ==
    DecodedFull =>
        \A k \in DOMAIN calls :
            calls[k].timestamp = DocumentedTimestamp(last.data[1], calls[k].slot)

\* C12 as stated: the timestamps do not decrease as the slot index goes
\* from 0 up to the highest index.
C12_Original_NonDecreasingInSlot ==
    DecodedFull =>
        \A j, k \in DOMAIN calls :
            calls[j].slot <= calls[k].slot =>
                calls[j].timestamp <= calls[k].timestamp

\* C12: the timestamps do not increase as the slot index goes from 0 up to
\* the highest index: the highest slot carries the base timestamp, the
\* lowest the largest one, so they do not decrease in dispatch order.
C12_NonIncreasingInSlot ==
    DecodedFull =>
        /\ \A j, k \in DOMAIN calls :
              calls[j].slot <= calls[k].slot =>
                  calls[j].timestamp >= calls[k].timestamp
        /\ \A k \in DOMAIN calls :
              calls[k].slot = SlotCount(last.data[1]) - 1 =>
                  calls[k].timestamp = BaseTimestamp

C12_Witness_Later ==
    /\ DecodedFull /\ last.data[1] = 50
    /\ last.data[DeltaIndex(50, 2) + 1] = 1
    /\ last.data[DeltaIndex(50, 1) + 1] = 255
    /\ last.data[DeltaIndex(50, 0) + 1] = 0
    /\ callbacks = {"got_acc_callback"}
    /\ Len(calls) = 4
    /\ calls[1].slot = 3 /\ calls[1].timestamp = BaseTimestamp
    /\ calls[2].slot = 2 /\ calls[2].timestamp = BaseTimestamp + 1
    /\ calls[3].slot = 1 /\ calls[3].timestamp = BaseTimestamp + 256
    /\ calls[4].slot = 0 /\ calls[4].timestamp = BaseTimestamp + 256

\* a packet of a stream tag shorter than its layout that the decoder was
\* given
DecodedShort ==
    /\ last.op = "SensorValuesData"
    /\ last.data[1] \in {50, 55, 56}
    /\ Len(last.data) < FullLength(last.data[1])

\* C15: a tag 50, 55 or 56 payload shorter than the length its layout
\* reads raises an out-of-bounds error and dispatches no event.
C15_ShortRaisesNoEvent == DecodedShort => (last.raised /\ calls = <<>>)

\* ------------------------------------------------- configuration claims
ConfigSetters == {"set_mount_position", "set_acc_range", "set_gyro_range"}
Reads == SelectSeq(transport, LAMBDA t : t.op = "read")
Writes == SelectSeq(transport, LAMBDA t : t.op = "write")
RECURSIVE Total(_)
Total(bytes) == IF bytes = <<>> THEN 0 ELSE Head(bytes) + Total(Tail(bytes))

\* C13: decoding the first 19 bytes of the payload that the write encoder
\* produced gives back the mount position, the accel and gyro range
\* indices and the version that were encoded.
C13_RoundTrip ==
    (last.op = "write_device_information" /\ Writes # <<>>) =>
        LET decoded == DeviceInformation(Slice(Writes[1].data, 0, 19))
            encoded == device_information[1]
        IN  /\ decoded.mount_position = encoded.mount_position
            /\ decoded.range.acc = encoded.range.acc
            /\ decoded.range.gyro = encoded.range.gyro
            /\ decoded.version = encoded.version

\* C14: every payload write_device_information hands to the transport is
\* 20 bytes long and its byte 19 is the sum of bytes 0..18 modulo 256.
C14_ChecksumByte ==
    last.op \in ConfigSetters \cup {"write_device_information"} =>
        \A k \in DOMAIN Writes :
            /\ Len(Writes[k].data) = 20
            /\ Writes[k].data[20] = Total(SubSeq(Writes[k].data, 1, 19)) % 256

C14_Witness_Wrapped ==
    /\ last.op = "write_device_information"
    /\ device_information[1].mount_position = 3
    /\ device_information[1].range = [acc |-> 3, gyro |-> 3]
    /\ device_information[1].version = 255
    /\ Len(Writes) = 1 /\ Writes[1].ok
    /\ Writes[1].data[20] = 77

\* C16: in set_mount_position, set_acc_range and set_gyro_range a write of
\* the device-information characteristic comes after a read of it made by
\* the same call.
C16_ReadBeforeWrite ==
    last.op \in ConfigSetters =>
        \A k \in DOMAIN transport :
            transport[k].op = "write" =>
                \E j \in 1..(k - 1) : transport[j].op = "read" /\ transport[j].ok

C16_Witness_ReadWrite ==
    /\ last.op = "set_mount_position" /\ last.data = <<2>>
    /\ Len(transport) = 3
    /\ transport[1].op = "read" /\ transport[2].op = "write"
    /\ transport[2].ok /\ transport[3].op = "sleep"

\* the range index a requested range value stands for
RangeIndex(v) ==
    CASE v \in {2, 250} -> 0
      [] v \in {4, 500} -> 1
      [] v \in {8, 1000} -> 2
      [] v \in {16, 2000} -> 3

C18_SettleAfterWrite ==
    \A k \in DOMAIN transport :
        (transport[k].op = "write" /\ transport[k].ok) =>
            k < Len(transport) /\ transport[k + 1].op = "sleep"

C18_Witness_Mode ==
    /\ last.op = "set_data_streaming_mode" /\ last.data = <<3>>
    /\ ~last.raised
    /\ Len(transport) = 2
    /\ transport[1].op = "write" /\ transport[1].data = <<13, 3>>
    /\ transport[2].op = "sleep"

C18_Witness_Config ==
    /\ last.op = "write_device_information" /\ ~last.raised
    /\ Len(transport) = 2
    /\ transport[1].op = "write" /\ transport[2].op = "sleep"

C19_Witness_NoRead ==
    /\ last.op = "write_device_information"
    /\ is_connected(client)
    /\ device_information = <<>>
    /\ transport = <<>>
    /\ last.raised

\* C20: when the write of a setter fails, the stored configuration holds
\* what the read of that call returned, the targeted field included.
C20_FailedWriteKeepsRead ==
    (/\ last.op \in ConfigSetters
     /\ Reads # <<>>
     /\ \E k \in DOMAIN Writes : ~Writes[k].ok) =>
        device_information = <<DeviceInformation(Reads[1].data)>>

\* ------------------------------------------------------- session claims
Watched(k) == k \in DOMAIN monitors
\* C23: a monitor task whose client lost its connection eventually makes
\* its poll and stops; that poll calls the disconnect subscriber, if one
\* is set, once, and no task calls it a second time or while its client is
\* connected; a poll leaves the serial number, the step counts and the
\* stored device information alone.
C23_WatchReportsLossOnce ==
    /\ \A k \in 1..MaxMonitors :
          (Watched(k) /\ monitors[k].link = "down" /\ monitors[k].running)
              ~> (Watched(k) /\ ~monitors[k].running)
    /\ [](\A k \in DOMAIN monitors :
            /\ monitors[k].invoked <= 1
            /\ monitors[k].invoked = 1 =>
                  (monitors[k].link = "down" /\ ~monitors[k].running)
            /\ ~monitors[k].running => monitors[k].link = "down")
    /\ [](last.op = "monitor_connection" =>
            /\ Len(calls) = IF "on_disconnect_callback" \in callbacks
                            THEN 1 ELSE 0
            /\ monitors[last.data[1]].invoked = Len(calls))
    /\ [][last'.op = "monitor_connection" =>
            UNCHANGED <<serial_number_prev, step_count, device_information>>]_vars

\* the session state a handler is meant to leave alone when it ignores or
\* drops a notification
Untouched ==
    /\ serial_number_prev = pre.serial_number_prev
    /\ step_count = pre.step_count

\* C21: a notification on the sensor-values or the step-analysis channel
\* handled while the session is not connected invokes no subscriber and
\* changes neither the serial number nor a step count.
C21_DroppedWhenNotConnected ==
    ((HandledStep \/ HandledSensor) /\ ~is_connected(client)) =>
        (calls = <<>> /\ Untouched)

\* C25: a sensor notification whose first byte is none of 40, 50, 55, 56
\* and a step-analysis notification whose second byte is none of 0, 1, 2,
\* 4 invokes no subscriber, raises nothing and changes neither the serial
\* number nor a step count.
C25_UnrecognizedIgnored ==
    (\/ HandledSensor /\ last.data[1] \notin {40, 50, 55, 56}
     \/ HandledStep /\ last.data[2] \notin {0, 1, 2, 4}) =>
        (calls = <<>> /\ ~last.raised /\ Untouched)

C25_Witness_Step ==
    /\ HandledStep /\ last.data[2] = 3
    /\ is_connected(client)
    /\ callbacks = NotifyCallbacks
    /\ LastStepCount > pre.step_count.gait
    /\ calls = <<>> /\ step_count = pre.step_count

C25_Witness_Sensor ==
    /\ HandledSensor /\ last.data[1] = 57
    /\ is_connected(client) /\ device_information # <<>>
    /\ callbacks = NotifyCallbacks
    /\ pre.serial_number_prev = 0 /\ LastSerial = 2
    /\ calls = <<>> /\ serial_number_prev = 0

\* C22: a successful connect that follows a disconnect leaves the serial
\* number 0, the four step counts 0 and no device information stored.
C22_ResetOnReconnect ==
    [][(/\ client = "disconnected"
        /\ last'.op = "connect"
        /\ is_connected(client')) =>
          /\ serial_number_prev' = 0
          /\ step_count' = StepCountInit
          /\ device_information' = <<>>]_vars

\* C24: a tag-40 packet dispatches the events that the same bytes dispatch
\* under tag 50.
C24_Tag40AsTag50 ==
    (last.op = "SensorValuesData" /\ last.data[1] = 40) =>
        calls = SensorValuesData(callbacks, [last.data EXCEPT ![1] = 50],
                                 device_information[1].range).calls

AccMultiplier(index) ==
    CASE index = 0 -> 2 [] index = 1 -> 4 [] index = 2 -> 8 [] index = 3 -> 16
GyroMultiplier(index) ==
    CASE index = 0 -> 250 [] index = 1 -> 500 [] index = 2 -> 1000
      [] index = 3 -> 2000
GyroXIndex(tag, i) ==
    CASE tag = 50 -> 16 + 21 * i
      [] tag = 55 -> 8 + 24 * i
      [] tag = 56 -> 16 + 32 * i
\* the three signed 16-bit values at offset a of the packet; where the
\* packet ends before a value does, what the shorter slice decodes to
RawAt(a) ==
    [n \in 1..3 |->
        IF a + 2 * n <= Len(last.data)
        THEN Signed16(last.data[a + 2 * n - 1], last.data[a + 2 * n])
        ELSE Vec3(last.data, a)[n]]
Times(v, m) == [n \in 1..3 |-> v[n] * m]
\* the raw event cb of slot i was dispatched with value v
RawEvent(cb, i, v) ==
    \E j \in DOMAIN calls :
        calls[j].cb = cb /\ calls[j].slot = i /\ calls[j].v = v

\* C26: a scaled-accel event is the raw accel value of its slot times
\* {2,4,8,16}[acc index] and a scaled-gyro event the raw gyro value times
\* {250,500,1000,2000}[gyro index], the indices being those of the stored
\* device information (values are numerators over 32768); the raw event
\* of the same slot, when subscribed, carries that raw value.
C26_RangeScaling ==
    last.op = "SensorValuesData" =>
        \A k \in DOMAIN calls :
            LET tag == last.data[1]
                i == calls[k].slot
                range == device_information[1].range
            IN  /\ calls[k].cb = "got_converted_acc_callback" =>
                      /\ calls[k].v = Times(RawAt(AccXIndex(tag, i)),
                                            AccMultiplier(range.acc))
                      /\ "got_acc_callback" \in callbacks =>
                            RawEvent("got_acc_callback", i,
                                     RawAt(AccXIndex(tag, i)))
                /\ calls[k].cb = "got_converted_gyro_callback" =>
                      /\ calls[k].v = Times(RawAt(GyroXIndex(tag, i)),
                                            GyroMultiplier(range.gyro))
                      /\ "got_gyro_callback" \in callbacks =>
                            RawEvent("got_gyro_callback", i,
                                     RawAt(GyroXIndex(tag, i)))

C26_Witness_Gyro2000 ==
    /\ DecodedFull /\ last.data[1] = 55
    /\ callbacks = SensorCallbacks
    /\ device_information[1].range = [acc |-> 0, gyro |-> 3]
    /\ calls[3].cb = "got_gyro_callback" /\ calls[3].v[1] # 0
    /\ calls[4].cb = "got_converted_gyro_callback"
    /\ calls[4].v[1] = 2000 * calls[3].v[1]
    /\ calls[2].cb = "got_converted_acc_callback"
    /\ calls[2].v[1] = 2 * calls[1].v[1] /\ calls[1].v[1] # 0

\* C27: a subscription to the sensor values exists only on a connected
\* session that stores a device information; a start that returned read
\* the device information first and stored what it read; a delivered
\* packet with a stream tag finds a device information stored.
C27_ScaledOnlyAfterRead ==
    /\ "sensor_values" \in notifying =>
          (is_connected(client) /\ device_information # <<>>)
    /\ (last.op = "start_sensor_values_notification" /\ ~last.raised) =>
          /\ Len(transport) = 2
          /\ transport[1] = Read(last.data, TRUE)
          /\ transport[2] = StartNotify(TRUE)
          /\ device_information = <<DeviceInformation(last.data)>>
    /\ (HandledSensor /\ last.data[1] \in {40, 50, 55, 56}) =>
          device_information # <<>>
    /\ \A k \in DOMAIN calls :
          calls[k].cb = "got_converted_acc_callback" =>
              calls[k].v = Times(RawAt(AccXIndex(last.data[1], calls[k].slot)),
                                 AccMultiplier(device_information[1].range.acc))

C27_Witness_Scaled ==
    /\ HandledSensor /\ last.data[1] = 50 /\ ~last.raised
    /\ "sensor_values" \in notifying
    /\ Len(calls) = 4
    /\ calls[1].cb = "got_converted_acc_callback"
    /\ device_information[1].range.acc = 2
    /\ calls[1].v[1] = 8 * RawAt(AccXIndex(50, 3))[1]

\* C28: gait_type is the two most significant bits of byte 4 and
\* direction the next three bits.
C28_GaitBitFields ==
    last.op = "GaitData" =>
        /\ calls[1].gait_type = (last.data[5] \div 64) % 4
        /\ calls[1].direction = (last.data[5] \div 8) % 8

\* C29: phase is bits 0-1 of byte 4, period bits 2-4 and event bits 5-7
\* (bit 0 the least significant, the numbering under which event is the
\* field the decoder takes).
C29_QuatBitFields ==
    last.op = "QuatDistanceData" =>
        /\ calls[1].phase = last.data[5] % 4
        /\ calls[1].period = (last.data[5] \div 4) % 8
        /\ calls[1].period <= 7
        /\ calls[1].event = last.data[5] \div 32

\* the values and the timestamps of the events that the bytes d dispatch
\* when every subscriber is set
EventValues(d) ==
    LET cs == SensorValuesData(SensorCallbacks, d,
                               device_information[1].range).calls
    IN  [k \in DOMAIN cs |-> cs[k].v]
EventStamps(d) ==
    LET cs == SensorValuesData(SensorCallbacks, d,
                               device_information[1].range).calls
    IN  [k \in DOMAIN cs |-> cs[k].timestamp]
Altered(d, o) == [d EXCEPT ![o + 1] = (d[o + 1] + 1) % 256]
\* the byte at offset o is decoded into a sensor field / is added to a
\* timestamp: altering it alters a value / a timestamp
IsFieldByte(o) == EventValues(Altered(last.data, o)) # EventValues(last.data)
IsDeltaByte(o) == EventStamps(Altered(last.data, o)) # EventStamps(last.data)
Stride(tag) == CASE tag = 50 -> 21 [] tag = 55 -> 24 [] tag = 56 -> 32

\* C30: in the slots of a full packet no byte is both added to a
\* timestamp and decoded into a sensor field, and a delta byte is the
\* last byte of its slot.
C30_DeltaByteApart ==
    DecodedFull =>
        \A o \in 8..(Len(last.data) - 1) :
            IsDeltaByte(o) =>
                /\ ~IsFieldByte(o)
                /\ (o - 8) % Stride(last.data[1]) = Stride(last.data[1]) - 1

\* C31: the first sensor-stream packet handled in a session invokes no
\* loss subscriber, whatever its serial number.
C31_FirstPacketNoLoss ==
    (HandledSensor /\ StreamPacket(client, last.data) /\ received = 1) =>
        LossCalls = <<>>

\* C33: handling a step-analysis payload leaves the step counts of the
\* other categories, the serial number and the stored device information
\* as they were; handling a sensor packet leaves the four step counts and
\* the stored device information as they were.
C33_UpdatesConfined ==
    [][/\ last'.op = "step_analysis_notification_handler" =>
            /\ \A cat \in DOMAIN StepCountInit :
                  cat # CategoryOf(last'.data[2]) =>
                      step_count'[cat] = step_count[cat]
            /\ serial_number_prev' = serial_number_prev
            /\ device_information' = device_information
       /\ last'.op = "sensor_values_notification_handler" =>
            /\ step_count' = step_count
            /\ device_information' = device_information]_vars

C33_Witness_Stride ==
    /\ HandledStep /\ last.data[2] = 1
    /\ step_count.stride = LastStepCount
    /\ step_count.stride # pre.step_count.stride
    /\ pre.step_count.gait # 0
    /\ \A cat \in {"gait", "pronation", "quat"} :
          step_count[cat] = pre.step_count[cat]
    /\ pre.serial_number_prev # 0
    /\ serial_number_prev = pre.serial_number_prev
    /\ device_information # <<>>

C33_Witness_Sensor ==
    /\ Processed
    /\ serial_number_prev = LastSerial
    /\ serial_number_prev # pre.serial_number_prev
    /\ pre.step_count.gait # 0
    /\ step_count = pre.step_count

\* C32: a packet handled while a range setter is between storing its
\* index and the end of its settle wait is scaled with the indices that
\* the setter read from the device.
C32_ScaledWithReadIndex ==
    (HandledSensor /\ setter.pc \in {"write", "settle"}) =>
        \A k \in DOMAIN calls :
            LET tag == last.data[1]
                i == calls[k].slot
            IN  /\ calls[k].cb = "got_converted_acc_callback" =>
                      calls[k].v = Times(RawAt(AccXIndex(tag, i)),
                                         AccMultiplier(setter.read.acc))
                /\ calls[k].cb = "got_converted_gyro_callback" =>
                      calls[k].v = Times(RawAt(GyroXIndex(tag, i)),
                                         GyroMultiplier(setter.read.gyro))

C23_Witness_Reported ==
    /\ last.op = "monitor_connection" /\ last.data = <<1>>
    /\ monitors[1] = [link |-> "down", running |-> FALSE, invoked |-> 1]
    /\ calls = <<[cb |-> "on_disconnect_callback", monitor |-> 1]>>
    /\ client = "disconnected"
====
